---- MODULE Spec2Model ----
(***************************************************************************)
(* The nova router (src/nova.go, src/request.go, Route in                  *)
(* src/unnamed/part_006): the per-method path tree, route registration,    *)
(* lookup, parameter binding, the middleware chain and static serving.     *)
(*                                                                         *)
(* Go strings that the code slices, indexes or splits (route patterns,     *)
(* request URIs, file paths) are sequences of one-character strings, so    *)
(* that routeStr[len-1], routeStr[1:], strings.Split and strings.Replace   *)
(* are computed the way the code computes them.  HTTP method names are     *)
(* only ever compared, and are plain strings; "" is the all-methods key.   *)
(***************************************************************************)
EXTENDS Naturals, Sequences, FiniteSets, TLC

VARIABLES
    paths,               \* Server.paths: method -> tree (child-key path -> route)
    middleWare,          \* Server.middleWare: the middleware functions, in Use order
    staticDirs,          \* Server.staticDirs: the static roots, in AddStatic order
    compressionEnabled,  \* Server.compressionEnabled
    registered,          \* history: the addRoute calls that returned normally
    crashed,             \* a panic in addRoute has aborted the program
    req,                 \* the request served last: what ServeHTTP did with it
    adding,              \* an addRoute call under way: its locals and position
    walking              \* a ServeHTTP call under way: climbTree's locals and position

vars == <<paths, middleWare, staticDirs, compressionEnabled, registered,
          crashed, req, adding, walking>>

---------------------------------------------------------------------------
(* Bounds of the model. *)

(* routes, middleware, static roots and switches set up in one run *)
MaxSetup == 3

MaxRoutes == 2

MaxMiddleware == 2

MaxStatic == 2

(* stat.Size() < 10000000 in serveStatic *)
GzipCap == 10000000

---------------------------------------------------------------------------
(* Strings *)

Slash == "/"

Sigil == ":"

(* s[from:] of Go, for 0-based from <= len(s) *)
Drop(s, n) == SubSeq(s, n + 1, Len(s))

HasChar(s, c) == \E i \in 1..Len(s) : s[i] = c

FirstIndex(s, c) == CHOOSE i \in 1..Len(s) : s[i] = c /\ \A j \in 1..(i - 1) : s[j] # c

(* strings.Split(s, "/"): one more part than there are separators *)
RECURSIVE Split(_, _)
Split(s, c) ==
    IF ~HasChar(s, c) THEN <<s>>
    ELSE LET i == FirstIndex(s, c)
         IN  <<SubSeq(s, 1, i - 1)>> \o Split(Drop(s, i), c)

(* s holds the two-character token ".." *)
HasDotDot(s) == \E i \in 1..(Len(s) - 1) : s[i] = "." /\ s[i + 1] = "."

(* strings.Replace(s, "..", "", 1): the first occurrence only *)
ReplaceDotDot_once(s) ==
    IF ~HasDotDot(s) THEN s
    ELSE LET i == CHOOSE k \in 1..(Len(s) - 1) :
                      /\ s[k] = "." /\ s[k + 1] = "."
                      /\ \A j \in 1..(k - 1) : ~(s[j] = "." /\ s[j + 1] = ".")
         IN  SubSeq(s, 1, i - 1) \o SubSeq(s, i + 2, Len(s))

(* strings.Replace(s, "..", "", -1): non-overlapping occurrences, left to right *)
RECURSIVE ReplaceDotDot(_)
ReplaceDotDot(s) ==
    IF Len(s) < 2 THEN s
    ELSE IF s[1] = "." /\ s[2] = "." THEN ReplaceDotDot(Drop(s, 2))
    ELSE <<s[1]>> \o ReplaceDotDot(Drop(s, 1))

(* http.Request.URL.Path: the request target without its query string *)
URLPath(uri) == IF HasChar(uri, "?") THEN SubSeq(uri, 1, FirstIndex(uri, "?") - 1) ELSE uri

---------------------------------------------------------------------------
(* The inputs the operations are called with. *)

(* the patterns handed to All/Get *)
Patterns ==
    { <<"/", "a">>,
      <<"/", "a", "/", "b">>,
      <<"/", "a", "/", "b", "/">>,
      <<"/", "a", "/", ":", "x">>,
      <<"/", "a", "/", ":", "y">>,
      <<"/", ":", "x", "/", ":", "x">>,
      <<"/", "a", "/", ":", "x", "/", "b">>,
      <<"/">>,
      <<>>,
      <<"a">> }

(* the request targets (Request.RequestURI) *)
RequestURIs ==
    { <<"/">>,
      <<"/", "a">>,
      <<"/", "b">>,
      <<"/", "a", "/">>,
      <<"/", "a", "/", "a">>,
      <<"/", "a", "/", "b">>,
      <<"/", "b", "/", "b">>,
      <<"/", "a", "/", "b", "/">>,
      <<"/", "a", "/", "b", "/", "b">>,
      <<"/", "a", "/", "a", "/", "b">>,
      <<"/", "a", "?", "b">> }

(* the methods requests arrive with *)
RequestMethods == {"GET", "POST"}

(* the directories handed to AddStatic; r does not exist *)
DirNames == { <<"p">>, <<"q">>, <<"r">> }

(* the directories os.Stat finds *)
ExistingDirs == { <<"p">>, <<"q">>, <<".", ".">> }

IndexHtml == <<"i", "n", "d", "e", "x", ".", "h", "t", "m", "l">>

(* the files on disk: whether they can be opened, their size, their bytes *)
FileSystem ==
    (<<"p", "/", "a">> :> [readable |-> TRUE, size |-> 10, data |-> 1])
 @@ (<<"q", "/", "a">> :> [readable |-> TRUE, size |-> 10, data |-> 2])
 @@ (<<"p", "/", "b">> :> [readable |-> FALSE, size |-> 10, data |-> 3])
 @@ (<<"q", "/", "b">> :> [readable |-> TRUE, size |-> GzipCap, data |-> 4])
 @@ ((<<"q", "/">> \o IndexHtml) :> [readable |-> TRUE, size |-> 10, data |-> 5])

---------------------------------------------------------------------------
(* Routes and the tree *)

NoRoute == [route |-> <<>>, routeFunc |-> 0]

Nil == [m |-> "nil", at |-> <<>>]

(* buildRoute: a new Route holding the pattern as given and the handler *)
buildRoute(route, routeFunc) == [route |-> route, routeFunc |-> routeFunc]

(* getNode: a node with no route and no children, linked under key path at *)
getNode(tree, at) == (at :> NoRoute) @@ tree

(* the child key addRoute files a pattern segment under *)
childKeyOf(val) == IF val[1] = Sigil THEN <<>> ELSE val

(* addRouteLoop that leaves a route already on the last node in place *)
RECURSIVE addRouteLoop_keepFirst(_, _, _, _, _)
addRouteLoop_keepFirst(tree, currentNode, parts, i, route) ==
    IF i > Len(parts) THEN [tree |-> tree, panic |-> FALSE]
    ELSE IF Len(parts[i]) = 0 THEN [tree |-> tree, panic |-> TRUE]
    ELSE LET child == Append(currentNode, childKeyOf(parts[i]))
             t1 == IF child \in DOMAIN tree THEN tree ELSE getNode(tree, child)
             t2 == IF i = Len(parts) /\ t1[child] = NoRoute
                   THEN [t1 EXCEPT ![child] = route] ELSE t1
         IN  addRouteLoop_keepFirst(t2, child, parts, i + 1, route)

(* addRouteLoop without the test of the index: the route is set on every
   node along the pattern *)
RECURSIVE addRouteLoop_everyNode(_, _, _, _, _)
addRouteLoop_everyNode(tree, currentNode, parts, i, route) ==
    IF i > Len(parts) THEN [tree |-> tree, panic |-> FALSE]
    ELSE IF Len(parts[i]) = 0 THEN [tree |-> tree, panic |-> TRUE]
    ELSE LET child == Append(currentNode, childKeyOf(parts[i]))
             t1 == IF child \in DOMAIN tree THEN tree ELSE getNode(tree, child)
             t2 == [t1 EXCEPT ![child] = route]
         IN  addRouteLoop_everyNode(t2, child, parts, i + 1, route)

(* addRouteLoop that links a new node for every segment, whether or not the
   child exists: the node's children stay, its route is gone *)
RECURSIVE addRouteLoop_alwaysNew(_, _, _, _, _)
addRouteLoop_alwaysNew(tree, currentNode, parts, i, route) ==
    IF i > Len(parts) THEN [tree |-> tree, panic |-> FALSE]
    ELSE IF Len(parts[i]) = 0 THEN [tree |-> tree, panic |-> TRUE]
    ELSE LET child == Append(currentNode, childKeyOf(parts[i]))
             t1 == IF child \in DOMAIN tree THEN [tree EXCEPT ![child] = NoRoute]
                   ELSE getNode(tree, child)
             t2 == IF i = Len(parts) THEN [t1 EXCEPT ![child] = route] ELSE t1
         IN  addRouteLoop_alwaysNew(t2, child, parts, i + 1, route)

(* the loop of addRoute over parts[i..]; stops at the panic of val[0] on an
   empty segment, with the nodes created so far left in the tree *)
RECURSIVE addRouteLoop(_, _, _, _, _)
addRouteLoop(tree, currentNode, parts, i, route) ==
    IF i > Len(parts) THEN [tree |-> tree, panic |-> FALSE]
    ELSE IF Len(parts[i]) = 0 THEN [tree |-> tree, panic |-> TRUE]
    ELSE LET child == Append(currentNode, childKeyOf(parts[i]))
             t1 == IF child \in DOMAIN tree THEN tree ELSE getNode(tree, child)
             t2 == IF i = Len(parts) THEN [t1 EXCEPT ![child] = route] ELSE t1
         IN  addRouteLoop(t2, child, parts, i + 1, route)

(* addRoute without the strip of a trailing slash *)
addRoute_noStrip(method, route) ==
    IF Len(route.route) = 0
    THEN [paths |-> paths, route |-> route, panic |-> TRUE]
    ELSE LET withRoot == IF method \in DOMAIN paths THEN paths
                         ELSE (method :> (<<>> :> NoRoute)) @@ paths
             parts == Split(Drop(route.route, 1), Slash)
             done == addRouteLoop(withRoot[method], <<>>, parts, 1, route)
         IN  [paths |-> [withRoot EXCEPT ![method] = done.tree],
              route |-> route, panic |-> done.panic]

(* addRoute: strips one trailing slash, creates the method's root, walks and
   creates one node per segment and sets the route on the last one.  Yields
   the table afterwards, the Route as stored, and whether the call panicked
   (routeStr[len-1] on "", routeStr[1:] on "", val[0] on an empty segment). *)
addRouteIn(table, method, route) ==
    IF Len(route.route) = 0
    THEN [paths |-> table, route |-> route, panic |-> TRUE]
    ELSE LET stripped == IF route.route[Len(route.route)] = Slash
                         THEN SubSeq(route.route, 1, Len(route.route) - 1)
                         ELSE route.route
             stored == [route EXCEPT !.route = stripped]
             withRoot == IF method \in DOMAIN table THEN table
                         ELSE (method :> (<<>> :> NoRoute)) @@ table
         IN  IF Len(stripped) = 0
             THEN [paths |-> withRoot, route |-> stored, panic |-> TRUE]
             ELSE LET parts == Split(Drop(stripped, 1), Slash)
                      done == addRouteLoop(withRoot[method], <<>>, parts, 1, stored)
                  IN  [paths |-> [withRoot EXCEPT ![method] = done.tree],
                       route |-> stored, panic |-> done.panic]

(* addRoute on the server's table *)
addRoute(method, route) == addRouteIn(paths, method, route)

(* climbLoop that goes back to the parameter-slot child when the walk below
   the literal child fails *)
RECURSIVE climbLoop_backtrack(_, _, _, _)
climbLoop_backtrack(tree, currentNode, parts, i) ==
    IF i > Len(parts) THEN [found |-> TRUE, at |-> currentNode]
    ELSE LET none == [found |-> FALSE, at |-> <<>>]
             literal == IF Append(currentNode, parts[i]) \in DOMAIN tree
                        THEN climbLoop_backtrack(tree, Append(currentNode, parts[i]),
                                                 parts, i + 1)
                        ELSE none
         IN  IF literal.found THEN literal
             ELSE IF Append(currentNode, <<>>) \in DOMAIN tree
                  THEN climbLoop_backtrack(tree, Append(currentNode, <<>>), parts, i + 1)
                  ELSE none

(* climbLoop with the parameter-slot child tried before the literal one *)
RECURSIVE climbLoop_paramFirst(_, _, _, _)
climbLoop_paramFirst(tree, currentNode, parts, i) ==
    IF i > Len(parts) THEN [found |-> TRUE, at |-> currentNode]
    ELSE IF Append(currentNode, <<>>) \in DOMAIN tree
         THEN climbLoop_paramFirst(tree, Append(currentNode, <<>>), parts, i + 1)
    ELSE IF Append(currentNode, parts[i]) \in DOMAIN tree
         THEN climbLoop_paramFirst(tree, Append(currentNode, parts[i]), parts, i + 1)
    ELSE [found |-> FALSE, at |-> <<>>]

(* the loop of climbTree over parts[i..] from node currentNode of a tree:
   the literal child, else the parameter-slot child, else nil *)
RECURSIVE climbLoop(_, _, _, _)
climbLoop(tree, currentNode, parts, i) ==
    IF i > Len(parts) THEN [found |-> TRUE, at |-> currentNode]
    ELSE IF Append(currentNode, parts[i]) \in DOMAIN tree
         THEN climbLoop(tree, Append(currentNode, parts[i]), parts, i + 1)
    ELSE IF Append(currentNode, <<>>) \in DOMAIN tree
         THEN climbLoop(tree, Append(currentNode, <<>>), parts, i + 1)
    ELSE [found |-> FALSE, at |-> <<>>]

(* the tree climbTree walks: the method's, else the all-methods one, else none *)
rootOf(table, method) ==
    IF method \in DOMAIN table THEN method
    ELSE IF "" \in DOMAIN table THEN ""
    ELSE "nil"

(* climbTree over a given table: the node reached, or Nil *)
climbTreeIn(table, method, path) ==
    LET root == rootOf(table, method)
    IN  IF root = "nil" THEN Nil
        ELSE LET end == climbLoop(table[root], <<>>, Split(Drop(path, 1), Slash), 1)
             IN  IF end.found THEN [m |-> root, at |-> end.at] ELSE Nil

climbTree(method, path) == climbTreeIn(paths, method, path)

(* Node.route of a node climbTree returned *)
routeAt(node) == paths[node.m][node.at]

---------------------------------------------------------------------------
(* Serving a request *)

(* the loop of buildRouteParams over routeParts[i..]: every segment that
   begins with the sigil binds its name to the request segment at the same
   index.  Panics on val[0] of an empty segment and on reqParts[index] past
   the end. *)
RECURSIVE buildRouteParamsLoop(_, _, _, _)
buildRouteParamsLoop(routeParams, reqParts, routeParts, i) ==
    IF i > Len(routeParts) THEN [routeParams |-> routeParams, panic |-> FALSE]
    ELSE IF Len(routeParts[i]) = 0 THEN [routeParams |-> routeParams, panic |-> TRUE]
    ELSE IF routeParts[i][1] # Sigil
         THEN buildRouteParamsLoop(routeParams, reqParts, routeParts, i + 1)
    ELSE IF i > Len(reqParts) THEN [routeParams |-> routeParams, panic |-> TRUE]
    ELSE buildRouteParamsLoop((Drop(routeParts[i], 1) :> reqParts[i]) @@ routeParams,
                              reqParts, routeParts, i + 1)

(* buildRouteParams with the request target split without dropping its
   leading slash *)
buildRouteParams_noStrip(uri, route) ==
    buildRouteParamsLoop(<<>>, Split(uri, Slash), Split(Drop(route, 1), Slash), 1)

(* buildRouteParams on the empty map NewRequest made *)
buildRouteParams(uri, route) ==
    buildRouteParamsLoop(<<>>, Split(Drop(uri, 1), Slash), Split(Drop(route, 1), Slash), 1)

(* runMiddlewareLoop without the break: the chain runs on after a middleware
   that did not invoke its continuation *)
RECURSIVE runMiddlewareLoop_noBreak(_, _, _)
runMiddlewareLoop_noBreak(m, calls, trace) ==
    IF m > Len(middleWare)
    THEN [stackFinished |-> \A j \in 1..Len(middleWare) : calls[j], trace |-> trace]
    ELSE runMiddlewareLoop_noBreak(m + 1, calls,
                                   Append(trace, <<"middleFunc", middleWare[m]>>))

(* the loop of runMiddleware from middleware m on: calls[m] says whether
   middleware m invokes its continuation before it returns.  Every middleware
   invoked is recorded, and marks the response. *)
RECURSIVE runMiddlewareLoop(_, _, _)
runMiddlewareLoop(m, calls, trace) ==
    IF m > Len(middleWare) THEN [stackFinished |-> TRUE, trace |-> trace]
    ELSE IF ~calls[m]
         THEN [stackFinished |-> FALSE, trace |-> Append(trace, <<"middleFunc", middleWare[m]>>)]
    ELSE runMiddlewareLoop(m + 1, calls, Append(trace, <<"middleFunc", middleWare[m]>>))

(* runMiddleware starting at the second middleware *)
runMiddleware_skipFirst(calls) == runMiddlewareLoop(2, calls, <<>>)

runMiddleware(calls) == runMiddlewareLoop(1, calls, <<>>)

(* mime.TypeByExtension of the text after the last dot of the path *)
TypeByExtension(path) ==
    LET extensionParts == Split(path, ".")
    IN  IF extensionParts[Len(extensionParts)] = <<"h", "t", "m", "l">>
        THEN "text/html" ELSE ""

(* the path serveStatic looks for under a root *)
candidatePath(dir, uri) ==
    LET path == ReplaceDotDot(dir \o URLPath(uri))
    IN  IF path[Len(path)] = Slash THEN path \o IndexHtml ELSE path

(* the loop of serveStatic over dirs[k..].  trace records each os.Stat, and
   response what was set and written: the Content-Type when the extension
   has one, then the gzip of what ioutil.ReadFile returned (nothing, when it
   failed) or the bytes io.Copy read; a file that os.Open cannot open ends
   the search unserved. *)
RECURSIVE serveStaticLoop(_, _, _, _, _)
serveStaticLoop(dirs, k, uri, trace, response) ==
    IF k > Len(dirs) THEN [served |-> FALSE, trace |-> trace, response |-> response]
    ELSE LET path == candidatePath(dirs[k], uri)
             t == Append(trace, <<"Stat", k>>)
         IN  IF path \notin DOMAIN FileSystem
             THEN serveStaticLoop(dirs, k + 1, uri, t, response)
             ELSE LET file == FileSystem[path]
                      mType == TypeByExtension(path)
                      r1 == IF mType # "" THEN Append(response, <<"Content-Type", 1>>)
                            ELSE response
                  IN  IF compressionEnabled /\ file.size < GzipCap
                      THEN [served |-> TRUE, trace |-> t,
                            response |-> r1 \o << <<"Content-Encoding", 1>>,
                                <<"gzip", IF file.readable THEN file.data ELSE 0>> >>]
                      ELSE IF ~file.readable
                      THEN [served |-> FALSE, trace |-> t, response |-> r1]
                      ELSE [served |-> TRUE, trace |-> t,
                            response |-> Append(r1, <<"file", file.data>>)]

serveStatic(uri, trace, response) == serveStaticLoop(staticDirs, 1, uri, trace, response)

(* no request is being served *)
NoReq ==
    [method |-> "", uri |-> <<>>, calls |-> <<>>, trace |-> <<>>, response |-> <<>>,
     routeParams |-> <<>>, node |-> Nil, outcome |-> "none"]

(* what each middleware that ran left on the response *)
middlewareResponse(trace) == [i \in 1..Len(trace) |-> <<"header", trace[i][2]>>]

(* Route.call: binds the parameters, then runs the handler, which answers *)
call(route, request) ==
    LET built == buildRouteParams(request.uri, route.route)
    IN  IF built.panic
        THEN [request EXCEPT !.routeParams = built.routeParams, !.outcome = "panic"]
        ELSE [request EXCEPT !.routeParams = built.routeParams,
                             !.trace = Append(@, <<"routeFunc", route.routeFunc>>),
                             !.response = Append(@, <<"handler", route.routeFunc>>),
                             !.outcome = "handler"]

(* ServeHTTP, from NewRequest to its return: the middleware chain, the tree
   walk, the call of node.route (a nil route is dereferenced in call and
   panics), static files, http.NotFound *)
ServeHTTPResult(method, uri, calls) ==
    LET mw == runMiddleware(calls)
        request == [method |-> method, uri |-> uri, calls |-> calls, trace |-> mw.trace,
                    response |-> middlewareResponse(mw.trace),
                    routeParams |-> <<>>, node |-> Nil, outcome |-> "middleware"]
    IN  IF ~mw.stackFinished THEN request
        ELSE LET node == climbTree(method, uri)
                 looked == [request EXCEPT !.node = node,
                                           !.trace = Append(@, <<"climbTree", 0>>)]
             IN  IF node # Nil
                 THEN IF routeAt(node) = NoRoute
                      THEN [looked EXCEPT !.outcome = "panic"]
                      ELSE call(routeAt(node), looked)
                 ELSE LET static == serveStatic(uri, Append(looked.trace, <<"serveStatic", 0>>),
                                                looked.response)
                      IN  IF static.served
                          THEN [looked EXCEPT !.trace = static.trace,
                                              !.response = static.response,
                                              !.outcome = "static"]
                          ELSE [looked EXCEPT !.trace = Append(static.trace, <<"NotFound", 0>>),
                                              !.response = Append(static.response, <<"404", 0>>),
                                              !.outcome = "notfound"]

---------------------------------------------------------------------------
(* The state machine *)

(* no addRoute call is under way *)
NotAdding ==
    [pc |-> "idle", method |-> "", pattern |-> <<>>, route |-> NoRoute, parts |-> <<>>,
     index |-> 0, currentNode |-> <<>>, linked |-> FALSE]

(* no ServeHTTP call is under way *)
NotWalking ==
    [pc |-> "idle", method |-> "", uri |-> <<>>, root |-> "", parts |-> <<>>, i |-> 0,
     currentNode |-> <<>>]

Init ==
    /\ paths = <<>>
    /\ middleWare = <<>>
    /\ staticDirs = <<>>
    /\ compressionEnabled = FALSE
    /\ registered = <<>>
    /\ crashed = FALSE
    /\ req = NoReq
    /\ adding = NotAdding
    /\ walking = NotWalking

(* what the program has set up so far: its registrations, middleware, static
   roots and the compression switch *)
setupSize ==
    Len(registered) + Len(middleWare) + Len(staticDirs)
        + (IF compressionEnabled THEN 1 ELSE 0)

(* Register that files every route under the all-methods root *)
Register_underAll(method, route) ==
    /\ ~crashed
    /\ req = NoReq
    /\ setupSize < MaxSetup
    /\ Len(registered) < MaxRoutes
    /\ LET added == addRoute("", buildRoute(route, Len(registered) + 1))
       IN  /\ paths' = added.paths
           /\ crashed' = added.panic
           /\ registered' = IF added.panic THEN registered
                            ELSE Append(registered,
                                        [method |-> method, pattern |-> route,
                                         route |-> added.route])
    /\ UNCHANGED <<adding, walking, middleWare, staticDirs, compressionEnabled, req>>

(* a call of addRoute with a Route built from (route, the next handler);
   like every set-up call, made while no request is being served *)
Register(method, route) ==
    /\ ~crashed
    /\ req = NoReq
    /\ setupSize < MaxSetup
    /\ Len(registered) < MaxRoutes
    /\ LET added == addRoute(method, buildRoute(route, Len(registered) + 1))
       IN  /\ paths' = added.paths
           /\ crashed' = added.panic
           /\ registered' = IF added.panic THEN registered
                            ELSE Append(registered,
                                        [method |-> method, pattern |-> route,
                                         route |-> added.route])
    /\ UNCHANGED <<adding, walking, middleWare, staticDirs, compressionEnabled, req>>

All(route) == Register("", route)

Get(route) == Register("GET", route)

Use ==
    /\ ~crashed
    /\ req = NoReq
    /\ setupSize < MaxSetup
    /\ Len(middleWare) < MaxMiddleware
    /\ middleWare' = Append(middleWare, Len(middleWare) + 1)
    /\ UNCHANGED <<adding, walking, paths, staticDirs, compressionEnabled, registered, crashed, req>>

AddStatic(dir) ==
    /\ ~crashed
    /\ req = NoReq
    /\ setupSize < MaxSetup
    /\ Len(staticDirs) < MaxStatic
    /\ staticDirs' = IF dir \in ExistingDirs THEN Append(staticDirs, dir) ELSE staticDirs
    /\ UNCHANGED <<adding, walking, paths, middleWare, compressionEnabled, registered, crashed, req>>

EnableGzip(value) ==
    /\ ~crashed
    /\ req = NoReq
    /\ (value /\ ~compressionEnabled) => setupSize < MaxSetup
    /\ compressionEnabled' = value
    /\ UNCHANGED <<adding, walking, paths, middleWare, staticDirs, registered, crashed, req>>

(* ServeHTTP that creates the root of the request's method when the table
   has none *)
ServeHTTP_makingRoot(method, uri, calls) ==
    /\ ~crashed
    /\ req = NoReq
    /\ req' = ServeHTTPResult(method, uri, calls)
    /\ paths' = IF method \in DOMAIN paths THEN paths
                ELSE (method :> (<<>> :> NoRoute)) @@ paths
    /\ UNCHANGED <<adding, walking, middleWare, staticDirs, compressionEnabled, registered, crashed>>

(* one request, served from start to end while no other call runs *)
ServeHTTP(method, uri, calls) ==
    /\ ~crashed
    /\ req = NoReq
    /\ req' = ServeHTTPResult(method, uri, calls)
    /\ UNCHANGED <<adding, walking, paths, middleWare, staticDirs, compressionEnabled, registered,
                   crashed>>

(* the Request of a served request does not outlive ServeHTTP *)
Release ==
    /\ req # NoReq
    /\ req' = NoReq
    /\ UNCHANGED <<adding, walking, paths, middleWare, staticDirs, compressionEnabled, registered,
                   crashed>>

Next ==
    \/ \E route \in Patterns : All(route)
    \/ \E route \in Patterns : Get(route)
    \/ Use
    \/ \E dir \in DirNames : AddStatic(dir)
    \/ \E value \in BOOLEAN : EnableGzip(value)
    \/ \E method \in RequestMethods, uri \in RequestURIs :
          \E calls \in [1..Len(middleWare) -> BOOLEAN] : ServeHTTP(method, uri, calls)
    \/ Release

Spec == Init /\ [][Next]_vars

---------------------------------------------------------------------------
(* Vocabulary of the properties *)

(* the segments of a pattern or of a request path *)
segments(s) == Split(Drop(s, 1), Slash)

isParam(val) == Len(val) > 0 /\ val[1] = Sigil

(* path A has the shape of pattern P: as many segments, the same text at
   P's literal positions, any text at P's ':' positions *)
SatisfiesShape(A, P) ==
    /\ Len(segments(A)) = Len(segments(P))
    /\ \A i \in 1..Len(segments(P)) :
          isParam(segments(P)[i]) \/ segments(A)[i] = segments(P)[i]

(* the child keys from the root to the node a stored pattern ends on *)
shapeOf(P) == [i \in 1..Len(segments(P)) |-> childKeyOf(segments(P)[i])]

Registrations == 1..Len(registered)

SameShape(i, j) ==
    /\ registered[i].method = registered[j].method
    /\ shapeOf(registered[i].route.route) = shapeOf(registered[j].route.route)

(* registration i was not followed by one of the same method and shape *)
LastOfShape(i) == \A j \in Registrations : j > i => ~SameShape(i, j)

(* the node registration i set its route on *)
terminalNode(i) ==
    [m |-> registered[i].method, at |-> shapeOf(registered[i].route.route)]

(* at none of P's ':' positions does the tree of method m hold a literal
   child keyed by A's segment there *)
NoLiteralSibling(m, P, A) ==
    \A i \in 1..Len(segments(P)) :
        isParam(segments(P)[i]) =>
            \/ segments(A)[i] = <<>>
            \/ Append(SubSeq(shapeOf(P), 1, i - 1), segments(A)[i]) \notin DOMAIN paths[m]

(* the walk of A in the tree of method m alone ends on a node with a route *)
MatchesUnder(m, A) ==
    /\ m \in DOMAIN paths
    /\ LET end == climbLoop(paths[m], <<>>, segments(A), 1)
       IN  end.found /\ paths[m][end.at] # NoRoute

---------------------------------------------------------------------------

(* The table changes only while no request is served, so what holds of it
   then holds of it throughout; the properties of the table alone are stated
   for those states of a program that has not been aborted by a panic. *)
Configured == ~crashed /\ req = NoReq

(* the states a sequence of route registrations, and nothing else, leads to:
   Use, AddStatic and EnableGzip leave the table as it is *)
AfterRegistrations ==
    Configured /\ middleWare = <<>> /\ staticDirs = <<>> /\ ~compressionEnabled

(* C1, as stated: for every registered (method, pattern P) still in the
   table and every path A of P's shape, climbTree(method, A) returns the
   node carrying the route registered for P. *)
C1_AsStated ==
    Configured =>
    \A i \in Registrations : \A A \in RequestURIs :
        (LastOfShape(i) /\ SatisfiesShape(A, registered[i].route.route)) =>
            /\ climbTree(registered[i].method, A) # Nil
            /\ routeAt(climbTree(registered[i].method, A)) = registered[i].route

(* C1, amended: for every registered (method, pattern P) and every path A of
   P's shape whose segments at P's ':' positions are not the keys of literal
   children registered at those positions, climbTree(method, A) returns P's
   terminal node, and that node carries the route registered last under
   that method with P's shape. *)
C1_LookupFindsShape ==
    AfterRegistrations =>
    \A i \in Registrations : \A A \in RequestURIs :
        (/\ SatisfiesShape(A, registered[i].route.route)
         /\ NoLiteralSibling(registered[i].method, registered[i].route.route, A))
        => /\ climbTree(registered[i].method, A) = terminalNode(i)
           /\ \E j \in Registrations :
                 /\ SameShape(i, j)
                 /\ LastOfShape(j)
                 /\ routeAt(terminalNode(i)) = registered[j].route

(* C1's case: a parameterised pattern, a path of its shape that the walk
   takes through the parameter slot, and another path of its shape that a
   literal sibling takes away *)
C1_Witness ==
    \E i \in Registrations : \E A, B \in RequestURIs :
        /\ \E k \in 1..Len(segments(registered[i].route.route)) :
              isParam(segments(registered[i].route.route)[k])
        /\ SatisfiesShape(A, registered[i].route.route)
        /\ NoLiteralSibling(registered[i].method, registered[i].route.route, A)
        /\ routeAt(climbTree(registered[i].method, A)) = registered[i].route
        /\ SatisfiesShape(B, registered[i].route.route)
        /\ ~NoLiteralSibling(registered[i].method, registered[i].route.route, B)

---------------------------------------------------------------------------
(* the indices of a pattern's ':' segments, and the name at such an index *)
paramPositions(P) == {i \in 1..Len(segments(P)) : isParam(segments(P)[i])}

nameAt(P, i) == Drop(segments(P)[i], 1)

(* the stored pattern of the route a dispatched request was handed to *)
dispatchedPattern == routeAt(req.node).route

(* C2, as stated: after a route with stored pattern P is dispatched for
   request path A, the parameter mapping binds, for every index i at which
   P's segment begins with ':', that segment's name to A's segment at i,
   and holds no other key. *)
C2_AsStated ==
    req.outcome = "handler" =>
        /\ \A i \in paramPositions(dispatchedPattern) :
              /\ nameAt(dispatchedPattern, i) \in DOMAIN req.routeParams
              /\ req.routeParams[nameAt(dispatchedPattern, i)] = segments(req.uri)[i]
        /\ DOMAIN req.routeParams =
              {nameAt(dispatchedPattern, i) : i \in paramPositions(dispatchedPattern)}

(* C2, amended: after a route with stored pattern P is dispatched for
   request path A, the parameter mapping binds every name that occurs at a
   ':' segment of P to A's segment at the last index where P has that name,
   and holds no other key. *)
C2_ParamsBound ==
    req.outcome = "handler" =>
        /\ \A i \in paramPositions(dispatchedPattern) :
              (\A j \in paramPositions(dispatchedPattern) :
                    j > i => nameAt(dispatchedPattern, j) # nameAt(dispatchedPattern, i))
              => /\ nameAt(dispatchedPattern, i) \in DOMAIN req.routeParams
                 /\ req.routeParams[nameAt(dispatchedPattern, i)] = segments(req.uri)[i]
        /\ DOMAIN req.routeParams =
              {nameAt(dispatchedPattern, i) : i \in paramPositions(dispatchedPattern)}

(* C2's case: a dispatched route whose pattern names one parameter twice,
   for a path with different segments at the two positions *)
C2_Witness ==
    /\ req.outcome = "handler"
    /\ \E i, j \in paramPositions(dispatchedPattern) :
          /\ i < j
          /\ nameAt(dispatchedPattern, i) = nameAt(dispatchedPattern, j)
          /\ segments(req.uri)[i] # segments(req.uri)[j]
          /\ req.routeParams[nameAt(dispatchedPattern, j)] = segments(req.uri)[j]

---------------------------------------------------------------------------
(* C3, as stated: a route registered with All for pattern P is returned by
   climbTree(M, A) for every concrete method M and every path A of P's shape
   whenever no route registered under M matches A.  (Stated for the paths
   the all-methods tree itself resolves to P.) *)
C3_AsStated ==
    Configured =>
    \A i \in Registrations : \A M \in RequestMethods : \A A \in RequestURIs :
        (/\ registered[i].method = ""
         /\ LastOfShape(i)
         /\ SatisfiesShape(A, registered[i].route.route)
         /\ NoLiteralSibling("", registered[i].route.route, A)
         /\ ~MatchesUnder(M, A))
        => /\ climbTree(M, A) = terminalNode(i)
           /\ routeAt(climbTree(M, A)) = registered[i].route

---------------------------------------------------------------------------
(* C4, as stated: climbTree returns nil for every path that is one segment
   longer or shorter than a registered pattern and has the shape of no
   registered pattern. *)
C4_AsStated ==
    Configured =>
    \A M \in RequestMethods : \A A \in RequestURIs :
        (/\ \E i \in Registrations :
               \/ Len(segments(A)) = Len(segments(registered[i].route.route)) + 1
               \/ Len(segments(A)) + 1 = Len(segments(registered[i].route.route))
         /\ \A i \in Registrations : ~SatisfiesShape(A, registered[i].route.route))
        => climbTree(M, A) = Nil

---------------------------------------------------------------------------
(* C5, as stated: when the walk consumes the whole request path and ends on
   a node that carries no route, no handler is called, no route is
   dereferenced, and the request falls through to static files and the 404
   response. *)
C5_AsStated ==
    (req.outcome # "none" /\ req.node # Nil /\ routeAt(req.node) = NoRoute) =>
        /\ req.outcome \in {"static", "notfound"}
        /\ \E k \in 1..Len(req.trace) : req.trace[k] = <<"serveStatic", 0>>
        /\ \A k \in 1..Len(req.trace) : req.trace[k][1] # "routeFunc"

---------------------------------------------------------------------------
(* what a served request's trace holds *)
Served == req.outcome # "none"

has(ev) == \E k \in 1..Len(req.trace) : req.trace[k][1] = ev

AllCallNext == \A m \in 1..Len(middleWare) : req.calls[m]

(* the first middleware that returns without invoking its continuation *)
firstStop ==
    CHOOSE m \in 1..Len(middleWare) :
        ~req.calls[m] /\ \A j \in 1..(m - 1) : req.calls[j]

(* the request would have been dispatched to a route *)
RouteMatches ==
    /\ climbTree(req.method, req.uri) # Nil
    /\ routeAt(climbTree(req.method, req.uri)) # NoRoute

(* C6: if a middleware returns without having invoked its continuation,
   then no middleware registered after it is invoked, route lookup, handler
   dispatch and static serving are skipped, the router writes no 404, and
   what the middleware up to it wrote is the whole response. *)
C6_ShortCircuit ==
    (Served /\ ~AllCallNext) =>
        /\ req.trace = [i \in 1..firstStop |-> <<"middleFunc", middleWare[i]>>]
        /\ req.response = [i \in 1..firstStop |-> <<"header", middleWare[i]>>]
        /\ req.node = Nil
        /\ req.routeParams = <<>>
        /\ req.outcome = "middleware"

(* C6's case: the first of two middleware does not invoke its continuation,
   for a request that a registered route matches *)
C6_Witness ==
    /\ Served
    /\ Len(middleWare) = 2
    /\ ~req.calls[1]
    /\ RouteMatches

---------------------------------------------------------------------------
(* C7: the middleware invoked for a request are a prefix of the list, in
   Use order, each once, ending with the first that does not invoke its own
   continuation; if all invoke it (or the list is empty), climbTree is
   called next, after the last middleware, and the handler of the route it
   finds runs. *)
C7_MiddlewareOrder ==
    Served =>
        LET n == IF AllCallNext THEN Len(middleWare) ELSE firstStop
        IN  /\ Len(req.trace) >= n
            /\ \A i \in 1..n : req.trace[i] = <<"middleFunc", middleWare[i]>>
            /\ \A i \in (n + 1)..Len(req.trace) : req.trace[i][1] # "middleFunc"
            /\ AllCallNext =>
                  /\ Len(req.trace) > n
                  /\ req.trace[n + 1] = <<"climbTree", 0>>
                  /\ req.node = climbTree(req.method, req.uri)
                  /\ (req.node # Nil /\ routeAt(req.node) # NoRoute) =>
                        /\ req.outcome = "handler"
                        /\ Len(req.trace) = n + 2
                        /\ req.trace[n + 2] = <<"routeFunc", routeAt(req.node).routeFunc>>

(* C7's case: two middleware both invoke their continuations and the
   request is dispatched to a handler *)
C7_Witness ==
    /\ Len(middleWare) = 2
    /\ Served
    /\ AllCallNext
    /\ req.outcome = "handler"

---------------------------------------------------------------------------
(* the stored pattern addRoute keeps for pattern Q *)
storedPattern(Q) == IF Q[Len(Q)] = Slash THEN SubSeq(Q, 1, Len(Q) - 1) ELSE Q

paramNames(P) == {nameAt(P, i) : i \in paramPositions(P)}

(* C8: registering a pattern of the same method and shape as a registered
   one raises no error and replaces the earlier route: the tree keeps its
   nodes, the terminal node holds the route registered last, and a request
   that reaches it is dispatched to that handler alone and binds that
   pattern's parameter names alone. *)
C8_LastRegistrationWins ==
    /\ AfterRegistrations =>
          \A i \in Registrations : \A Q \in Patterns :
              (Len(Q) > 1 /\ shapeOf(storedPattern(Q)) = shapeOf(registered[i].route.route))
              => LET m == registered[i].method
                     again == addRoute(m, buildRoute(Q, Len(registered) + 1))
                 IN  /\ ~again.panic
                     /\ again.paths =
                           [paths EXCEPT ![m][terminalNode(i).at] =
                               [route |-> storedPattern(Q),
                                routeFunc |-> Len(registered) + 1]]
    /\ AfterRegistrations =>
          \A j \in Registrations :
              LastOfShape(j) => routeAt(terminalNode(j)) = registered[j].route
    /\ req.outcome = "handler" =>
          \A j \in Registrations :
              (req.node = terminalNode(j) /\ LastOfShape(j)) =>
                  /\ \A k \in 1..Len(req.trace) :
                        req.trace[k][1] = "routeFunc" =>
                            req.trace[k][2] = registered[j].route.routeFunc
                  /\ DOMAIN req.routeParams = paramNames(registered[j].route.route)

(* C8's case: a pattern registered over one of the same shape with another
   parameter name, and a request dispatched to the node they share *)
C8_Witness ==
    \E i, j \in Registrations :
        /\ i < j
        /\ SameShape(i, j)
        /\ paramNames(registered[i].route.route) # paramNames(registered[j].route.route)
        /\ req.outcome = "handler"
        /\ req.node = terminalNode(j)
        /\ DOMAIN req.routeParams = paramNames(registered[j].route.route)

---------------------------------------------------------------------------
(* the roots under which the request's candidate path exists *)
rootsHolding == {k \in 1..Len(staticDirs) :
                    candidatePath(staticDirs[k], req.uri) \in DOMAIN FileSystem}

firstHolding == CHOOSE k \in rootsHolding : \A o \in rootsHolding : k <= o

fileUnder(k) == FileSystem[candidatePath(staticDirs[k], req.uri)]

(* the bytes of a file were written to the response, plain or compressed *)
wrote(data) ==
    \E k \in 1..Len(req.response) :
        req.response[k] = <<"file", data>> \/ req.response[k] = <<"gzip", data>>

statsMade == SelectSeq(req.trace, LAMBDA e : e[1] = "Stat")

(* C9, as stated: serveStatic tries the roots in AddStatic order and serves
   from the first whose candidate path exists: if two roots both hold a
   file at the request's relative path, the file of the root registered
   first is the one written to the response and later roots are not
   consulted. *)
C9_AsStated ==
    (/\ has("serveStatic")
     /\ \E i, j \in rootsHolding : staticDirs[i] # staticDirs[j]) =>
        /\ req.outcome = "static"
        /\ wrote(fileUnder(firstHolding).data)
        /\ statsMade = [k \in 1..firstHolding |-> <<"Stat", k>>]

---------------------------------------------------------------------------
(* the place of the first event of a kind in the trace, 0 when there is none *)
placeOf(ev) ==
    IF has(ev) THEN CHOOSE k \in 1..Len(req.trace) :
                        req.trace[k][1] = ev /\ \A j \in 1..(k - 1) : req.trace[j][1] # ev
    ELSE 0

(* C10, as stated: for every request that passes the middleware chain,
   exactly one of three outcomes occurs: a route is found and its handler is
   invoked; or no route is found and a static root serves the file; or
   neither, and the router writes the not-found response.  Static serving
   comes only after the failed lookup, the 404 only after static serving
   failed. *)
C10_AsStated ==
    (Served /\ AllCallNext) =>
        /\ has("climbTree")
        /\ \/ /\ req.outcome = "handler"
              /\ has("routeFunc") /\ ~has("serveStatic") /\ ~has("NotFound")
           \/ /\ req.outcome = "static"
              /\ req.node = Nil
              /\ ~has("routeFunc") /\ has("serveStatic") /\ ~has("NotFound")
              /\ placeOf("climbTree") < placeOf("serveStatic")
           \/ /\ req.outcome = "notfound"
              /\ req.node = Nil
              /\ ~has("routeFunc") /\ has("serveStatic") /\ has("NotFound")
              /\ placeOf("climbTree") < placeOf("serveStatic")
              /\ placeOf("serveStatic") < placeOf("NotFound")
              /\ req.response[Len(req.response)] = <<"404", 0>>

---------------------------------------------------------------------------
(* the methods routes are registered under: all methods, and GET *)
RegisterMethods == {"", "GET"}

(* the handler the next registration brings *)
nextHandler == Len(registered) + 1

(* C11, as stated: a route can be registered with the pattern exactly "/"
   (addRoute returns normally), and afterwards the lookup of "/" under that
   method ends on the node carrying that route. *)
C11_AsStated ==
    Configured =>
    \A m \in RegisterMethods :
        LET added == addRoute(m, buildRoute(<<Slash>>, nextHandler))
        IN  /\ ~added.panic
            /\ climbTreeIn(added.paths, m, <<Slash>>) # Nil
            /\ added.paths[m][climbTreeIn(added.paths, m, <<Slash>>).at] = added.route

---------------------------------------------------------------------------
(* what a lookup gives: the route of the node reached, none for nil and for
   a node without a route *)
lookupResult(method, path) ==
    IF climbTree(method, path) = Nil THEN NoRoute ELSE routeAt(climbTree(method, path))

(* C12, as stated: for every method M and non-root path A, the lookup of
   A + "/" gives the same result (same route or not-found) as the lookup
   of A. *)
C12_AsStated ==
    Configured =>
    \A M \in RequestMethods : \A A \in RequestURIs :
        (Len(A) > 1 /\ A[Len(A)] # Slash /\ ~HasChar(A, "?"))
        => lookupResult(M, Append(A, Slash)) = lookupResult(M, A)

---------------------------------------------------------------------------
(* C13: for every method M and well-formed non-root pattern P without a
   trailing slash, addRoute(M, P + "/") returns normally and leaves the same
   table and the same stored pattern as addRoute(M, P); a request dispatched
   to a route registered with a trailing slash finds the pattern stored
   without it. *)
C13_TrailingSlashSame ==
    /\ AfterRegistrations =>
          \A m \in RegisterMethods : \A P \in Patterns :
              (Len(P) > 1 /\ P[1] = Slash /\ P[Len(P)] # Slash)
              => /\ ~addRoute(m, buildRoute(Append(P, Slash), nextHandler)).panic
                 /\ addRoute(m, buildRoute(Append(P, Slash), nextHandler))
                       = addRoute(m, buildRoute(P, nextHandler))
    /\ req.outcome = "handler" =>
          \A j \in Registrations :
              (req.node = terminalNode(j) /\ LastOfShape(j)) =>
                  /\ dispatchedPattern = storedPattern(registered[j].pattern)
                  /\ req.routeParams =
                        buildRouteParams(req.uri, storedPattern(registered[j].pattern)).routeParams

(* C13's case: a pattern registered with a trailing slash, and a request
   dispatched to its route *)
C13_Witness ==
    /\ req.outcome = "handler"
    /\ \E j \in Registrations :
          /\ registered[j].pattern[Len(registered[j].pattern)] = Slash
          /\ req.node = terminalNode(j)
          /\ LastOfShape(j)

---------------------------------------------------------------------------
(* a table holds no route that another table does not hold at the same node *)
NoRouteAdded(before, after) ==
    \A o \in DOMAIN after : \A at \in DOMAIN after[o] :
        after[o][at] # NoRoute =>
            /\ o \in DOMAIN before
            /\ at \in DOMAIN before[o]
            /\ before[o][at] = after[o][at]

(* malformed patterns: the empty one, and ones that do not begin with '/' *)
MalformedPatterns ==
    { <<>>,
      <<"a">>,
      <<"a", "/">>,
      <<"b", "a">>,
      <<"b", "/", "a">> }

(* C14, as stated: addRoute panics for the empty pattern and for every
   non-empty pattern that does not begin with '/', and no route is added to
   the table for such a pattern. *)
C14_AsStated ==
    Configured =>
    \A m \in RegisterMethods : \A P \in MalformedPatterns :
        (P = <<>> \/ P[1] # Slash)
        => /\ addRoute(m, buildRoute(P, nextHandler)).panic
           /\ NoRouteAdded(paths, addRoute(m, buildRoute(P, nextHandler)).paths)

---------------------------------------------------------------------------
(* The router of src/unnamed/part_000: addRoute links the route as a new
   node under the node of the last segment, climbTree returns a Route. *)

(* the patterns handed to All/Get of that router *)
p0_Patterns ==
    { <<"/", "a">>,
      <<"/", "a", "/", "a">>,
      <<"/", "a", "/", "b">>,
      <<"/", "a", "/", "b", "/">>,
      <<"/", "a", "/", ":", "x">>,
      <<"/", "b">>,
      <<"/">> }

(* the request paths (Request.URL.Path) *)
p0_Paths ==
    { <<"/">>,
      <<"/", "a">>,
      <<"/", "a", "/">>,
      <<"/", "b">>,
      <<"/", "a", "/", "a">>,
      <<"/", "a", "/", "b">>,
      <<"/", "a", "/", "b", "/">>,
      <<"/", "b", "/", "a">> }

IsPrefix(p, q) == Len(p) <= Len(q) /\ SubSeq(q, 1, Len(p)) = p

(* currentNode.children[childKey] = getNode(true, route): the new node, with
   no children, takes the place of whatever was linked under that key *)
setEdge(tree, at, route) ==
    [n \in {q \in DOMAIN tree : ~IsPrefix(at, q)} \cup {at} |->
        IF n = at THEN route ELSE tree[n]]

(* the loop of addRoute over parts[i..]: the child of each segment is
   followed or created; at the last segment the route node is then linked
   under the same key below that child *)
RECURSIVE p0_addRouteLoop(_, _, _, _, _)
p0_addRouteLoop(tree, currentNode, parts, i, route) ==
    IF i > Len(parts) THEN [tree |-> tree, panic |-> FALSE]
    ELSE IF Len(parts[i]) = 0 THEN [tree |-> tree, panic |-> TRUE]
    ELSE LET childKey == childKeyOf(parts[i])
             child == Append(currentNode, childKey)
             t1 == IF child \in DOMAIN tree THEN tree ELSE getNode(tree, child)
         IN  IF i = Len(parts)
             THEN [tree |-> setEdge(t1, Append(child, childKey), route), panic |-> FALSE]
             ELSE p0_addRouteLoop(t1, child, parts, i + 1, route)

p0_addRoute(method, route) ==
    IF Len(route.route) = 0
    THEN [paths |-> paths, route |-> route, panic |-> TRUE]
    ELSE LET stripped == IF route.route[Len(route.route)] = Slash
                         THEN SubSeq(route.route, 1, Len(route.route) - 1)
                         ELSE route.route
             stored == [route EXCEPT !.route = stripped]
             withRoot == IF method \in DOMAIN paths THEN paths
                         ELSE (method :> (<<>> :> NoRoute)) @@ paths
         IN  IF Len(stripped) = 0
             THEN [paths |-> withRoot, route |-> stored, panic |-> TRUE]
             ELSE LET parts == Split(Drop(stripped, 1), Slash)
                      done == p0_addRouteLoop(withRoot[method], <<>>, parts, 1, stored)
                  IN  [paths |-> [withRoot EXCEPT ![method] = done.tree],
                       route |-> stored, panic |-> done.panic]

(* the loop of climbTree over parts[i..]: miss when a segment has neither a
   literal nor a parameter child; at the last segment the route of the child
   keyed by the segment, else of the parameter child, of the node reached;
   NoRoute stands for the nil Route *)
RECURSIVE p0_climbLoop(_, _, _, _)
p0_climbLoop(tree, currentNode, parts, i) ==
    IF i > Len(parts) THEN [miss |-> FALSE, route |-> NoRoute]
    ELSE LET lit == Append(currentNode, parts[i])
             par == Append(currentNode, <<>>)
         IN  IF lit \notin DOMAIN tree /\ par \notin DOMAIN tree
             THEN [miss |-> TRUE, route |-> NoRoute]
             ELSE LET node == IF lit \in DOMAIN tree THEN lit ELSE par
                  IN  IF i = Len(parts) /\ Append(node, parts[i]) \in DOMAIN tree
                      THEN [miss |-> FALSE, route |-> tree[Append(node, parts[i])]]
                      ELSE IF i = Len(parts) /\ Append(node, <<>>) \in DOMAIN tree
                      THEN [miss |-> FALSE, route |-> tree[Append(node, <<>>)]]
                      ELSE p0_climbLoop(tree, node, parts, i + 1)

(* the strip without the case of a trailing slash *)
stripSlashes_leadingOnly(path) ==
    IF Len(path) = 0 THEN [panic |-> TRUE, path |-> path]
    ELSE [panic |-> FALSE, path |-> Drop(path, 1)]

(* the strip at the head of climbTree; path[len-1] panics on "" and
   path[1:len-1] on "/" *)
stripSlashes(path) ==
    IF Len(path) = 0 \/ path = <<Slash>> THEN [panic |-> TRUE, path |-> path]
    ELSE IF path[Len(path)] = Slash
         THEN [panic |-> FALSE, path |-> SubSeq(path, 2, Len(path) - 1)]
         ELSE [panic |-> FALSE, path |-> Drop(path, 1)]

(* climbTree: on a miss under a method it calls itself for the all-methods
   tree with the path it has already stripped *)
RECURSIVE p0_climbTree(_, _, _)
p0_climbTree(table, method, path) ==
    LET strip == stripSlashes(path)
        root == rootOf(table, method)
    IN  IF strip.panic THEN [panic |-> TRUE, route |-> NoRoute]
        ELSE IF root = "nil" THEN [panic |-> FALSE, route |-> NoRoute]
        ELSE LET end == p0_climbLoop(table[root], <<>>, Split(strip.path, Slash), 1)
             IN  IF ~end.miss THEN [panic |-> FALSE, route |-> end.route]
                 ELSE IF method = "" THEN [panic |-> FALSE, route |-> NoRoute]
                 ELSE p0_climbTree(table, "", strip.path)

(* ServeHTTP of that router: the middleware chain, climbTree on the URL
   path, the call of the Route found, else http.NotFound *)
p0_ServeHTTPResult(method, uri, calls) ==
    LET mw == runMiddleware(calls)
        request == [method |-> method, uri |-> uri, calls |-> calls, trace |-> mw.trace,
                    response |-> middlewareResponse(mw.trace),
                    routeParams |-> <<>>, node |-> Nil, outcome |-> "middleware"]
    IN  IF ~mw.stackFinished THEN request
        ELSE LET found == p0_climbTree(paths, method, URLPath(uri))
                 looked == [request EXCEPT !.trace = Append(@, <<"climbTree", 0>>)]
             IN  IF found.panic THEN [looked EXCEPT !.outcome = "panic"]
                 ELSE IF found.route # NoRoute THEN call(found.route, looked)
                 ELSE [looked EXCEPT !.trace = Append(@, <<"NotFound", 0>>),
                                     !.response = Append(@, <<"404", 0>>),
                                     !.outcome = "notfound"]

p0_Register(method, route) ==
    /\ ~crashed
    /\ req = NoReq
    /\ setupSize < MaxSetup
    /\ Len(registered) < MaxRoutes
    /\ LET added == p0_addRoute(method, buildRoute(route, Len(registered) + 1))
       IN  /\ paths' = added.paths
           /\ crashed' = added.panic
           /\ registered' = IF added.panic THEN registered
                            ELSE Append(registered,
                                        [method |-> method, pattern |-> route,
                                         route |-> added.route])
    /\ UNCHANGED <<adding, walking, middleWare, staticDirs, compressionEnabled, req>>

p0_All(route) == p0_Register("", route)

p0_Get(route) == p0_Register("GET", route)

p0_ServeHTTP(method, uri, calls) ==
    /\ ~crashed
    /\ req = NoReq
    /\ req' = p0_ServeHTTPResult(method, uri, calls)
    /\ UNCHANGED <<adding, walking, paths, middleWare, staticDirs, compressionEnabled, registered,
                   crashed>>

p0_Next ==
    \/ \E route \in p0_Patterns : p0_All(route)
    \/ \E route \in p0_Patterns : p0_Get(route)
    \/ Use
    \/ \E method \in RequestMethods, uri \in p0_Paths :
          \E calls \in [1..Len(middleWare) -> BOOLEAN] : p0_ServeHTTP(method, uri, calls)
    \/ Release

p0_Spec == Init /\ [][p0_Next]_vars

---------------------------------------------------------------------------
(* the Route climbTree of that router returns for a path *)
p0_found(method, path) == p0_climbTree(paths, method, path)

(* C15, as stated: after any sequence of registrations, in any order, every
   registered pattern whose shape was not registered again is still
   returned by climbTree for a path of its shape. *)
C15_AsStated ==
    Configured =>
    \A i \in Registrations :
        LastOfShape(i) =>
            \E A \in p0_Paths :
                /\ SatisfiesShape(A, registered[i].route.route)
                /\ p0_found(registered[i].method, A)
                      = [panic |-> FALSE, route |-> registered[i].route]

---------------------------------------------------------------------------
(* C16, as stated: climbTree(M, A + "/") returns the same route as
   climbTree(M, A) for every method M and every non-root path A. *)
C16_AsStated ==
    Configured =>
    \A M \in RequestMethods : \A A \in p0_Paths :
        Len(A) > 1 => p0_found(M, Append(A, Slash)) = p0_found(M, A)

(* C16, amended: climbTree(M, A + "/") returns the same route as
   climbTree(M, A) for every method M and every non-root path A that does
   not itself end in '/'; a request for such a path with the slash added is
   answered as climbTree answers the path without it. *)
C16_SlashSame ==
    /\ Configured =>
          \A M \in RequestMethods : \A A \in p0_Paths :
              (Len(A) > 1 /\ A[Len(A)] # Slash)
              => p0_found(M, Append(A, Slash)) = p0_found(M, A)
    /\ (Served /\ AllCallNext /\ Len(req.uri) > 2 /\ req.uri[Len(req.uri)] = Slash
            /\ req.uri[Len(req.uri) - 1] # Slash) =>
          LET A == SubSeq(req.uri, 1, Len(req.uri) - 1)
          IN  IF p0_found(req.method, A).route = NoRoute
              THEN req.outcome = "notfound"
              ELSE /\ req.outcome = "handler"
                   /\ req.trace[Len(req.trace)]
                         = <<"routeFunc", p0_found(req.method, A).route.routeFunc>>

(* C16's case: a pattern registered with a trailing slash, and a request for
   a path with a trailing slash dispatched to its route *)
C16_Witness ==
    /\ req.outcome = "handler"
    /\ req.uri[Len(req.uri)] = Slash
    /\ \E j \in Registrations :
          /\ registered[j].pattern[Len(registered[j].pattern)] = Slash
          /\ req.trace[Len(req.trace)] = <<"routeFunc", registered[j].route.routeFunc>>

---------------------------------------------------------------------------
(* C17: a step of addRoute(M, P) creates or modifies nodes only inside the
   tree rooted at paths[M]: the trees of every other method stay as they
   were, no other root appears, and the middleware list, the static roots
   and the compression switch are unchanged; when the call returns normally
   the route is on P's terminal node under M's root. *)
C17_RegisterFrame ==
    [][\A m \in RegisterMethods : \A route \in Patterns :
          Register(m, route) =>
              /\ middleWare' = middleWare
              /\ staticDirs' = staticDirs
              /\ compressionEnabled' = compressionEnabled
              /\ DOMAIN paths' \subseteq DOMAIN paths \cup {m}
              /\ \A o \in DOMAIN paths :
                    o # m => (o \in DOMAIN paths' /\ paths'[o] = paths[o])
              /\ ~crashed' =>
                    paths'[m][shapeOf(storedPattern(route))]
                        = [route |-> storedPattern(route), routeFunc |-> nextHandler]
      ]_vars

(* C17's case: a route registered under GET after one registered for all
   methods, each on its terminal node under its own root, the GET pattern's
   node absent from the all-methods tree *)
C17_Witness ==
    \E i, j \in Registrations :
        /\ i < j
        /\ registered[i].method = ""
        /\ registered[j].method = "GET"
        /\ routeAt(terminalNode(i)) = registered[i].route
        /\ routeAt(terminalNode(j)) = registered[j].route
        /\ terminalNode(j).at \notin DOMAIN paths[""]

---------------------------------------------------------------------------
(* C18: a step that serves a request, or ends its serving, leaves the
   routing table, the middleware list, the static roots and the compression
   switch as they were; only the Request changes. *)
C18_ServeFrame ==
    [][req' # req =>
          /\ paths' = paths
          /\ middleWare' = middleWare
          /\ staticDirs' = staticDirs
          /\ compressionEnabled' = compressionEnabled
      ]_vars

(* C18's case: a request that passed a middleware and the lookup of a table
   holding a route and was served from a static root *)
C18_Witness ==
    /\ req.outcome = "static"
    /\ Len(registered) > 0
    /\ Len(middleWare) > 0
    /\ has("middleFunc")
    /\ has("climbTree")

---------------------------------------------------------------------------
(* C19, as stated: serveStatic reports served = true whenever the existence
   check succeeds for some root's candidate path, with compression and
   without; it reports false only when the check fails for every root, and
   after a failure on one root the next root is tried. *)
C19_AsStated ==
    has("serveStatic") =>
        /\ (req.outcome = "static") <=> (rootsHolding # {})
        /\ req.outcome # "static" =>
              statsMade = [k \in 1..Len(staticDirs) |-> <<"Stat", k>>]

---------------------------------------------------------------------------
(* Static serving of request paths that hold dots: a server with static
   roots and no routes, asked for every path over a small alphabet. *)

(* the characters after the leading slash of those paths *)
MaxTail == 4

PathAlphabet == {".", "/", "a"}

DottedPaths ==
    UNION {{<<Slash>> \o w : w \in [1..n -> PathAlphabet]} : n \in 0..MaxTail}

(* the directories handed to AddStatic, among them the parent directory *)
DottedDirNames == DirNames \cup { <<".", ".">> }

static_Next ==
    \/ \E dir \in DottedDirNames : AddStatic(dir)
    \/ \E value \in BOOLEAN : EnableGzip(value)
    \/ \E method \in RequestMethods, uri \in DottedPaths :
          \E calls \in [1..Len(middleWare) -> BOOLEAN] : ServeHTTP(method, uri, calls)
    \/ Release

static_Spec == Init /\ [][static_Next]_vars

(* the roots serveStatic made the existence check for *)
rootsTried == {k \in 1..Len(staticDirs) : \E e \in 1..Len(req.trace) : req.trace[e] = <<"Stat", k>>}

(* C20: for every static root and request path, the candidate path that
   serveStatic checks for existence and reads holds no ".." . *)
C20_NoDotDot ==
    has("serveStatic") =>
        /\ \A k \in rootsTried : ~HasDotDot(candidatePath(staticDirs[k], req.uri))
        /\ req.outcome = "static" =>
              \E k \in rootsTried :
                  /\ candidatePath(staticDirs[k], req.uri) \in DOMAIN FileSystem
                  /\ wrote(FileSystem[candidatePath(staticDirs[k], req.uri)].data)

(* C20's case: a request path holding ".." , and a file served from the
   path left when the token is removed *)
C20_Witness ==
    /\ HasDotDot(URLPath(req.uri))
    /\ req.outcome = "static"
    /\ \E k \in rootsTried :
          /\ candidatePath(staticDirs[k], req.uri) \in DOMAIN FileSystem
          /\ ~HasDotDot(candidatePath(staticDirs[k], req.uri))


---------------------------------------------------------------------------
(* Registration and lookup alone: a server with routes and neither
   middleware nor static roots *)

route_Next ==
    \/ \E route \in Patterns : All(route)
    \/ \E route \in Patterns : Get(route)
    \/ \E method \in RequestMethods, uri \in RequestURIs : ServeHTTP(method, uri, <<>>)
    \/ Release

route_Spec == Init /\ [][route_Next]_vars

(* the child keys a walk of parts takes through tree, as the rule "the literal
   child, and the parameter slot only where the node has no literal child of
   that text" fixes them level by level *)
walksOf(tree, parts) ==
    { k \in DOMAIN tree :
        /\ Len(k) = Len(parts)
        /\ \A i \in 1..Len(parts) :
              \/ k[i] = parts[i]
              \/ /\ k[i] = <<>>
                 /\ Append(SubSeq(k, 1, i - 1), parts[i]) \notin DOMAIN tree }

(* the route a lookup ends on; NoRoute when it ends on nil *)
routeFound(method, path) ==
    LET node == climbTree(method, path)
    IN  IF node = Nil THEN NoRoute ELSE routeAt(node)

(* the nodes the rule allows as the end of the lookup of path for method *)
walkRule(method, path) ==
    LET root == rootOf(paths, method)
    IN  IF root = "nil" THEN {}
        ELSE { [m |-> root, at |-> k] : k \in walksOf(paths[root], segments(path)) }

(* C21: at every level climbTree takes the literal child keyed by the segment
   and the parameter slot only when the node has no such literal child, and
   never goes back on a choice: the node it returns is the one node the rule
   fixes level by level, and nil when the rule leads nowhere, even if another
   branch would have matched; so for every table between requests, and for
   the node of every request served.  With /a/:id and /a/b both in the tree
   walked, /a/b ends on the route of /a/b and /a/a on the route of /a/:id. *)
C21_LiteralFirst ==
    /\ req = NoReq =>
          \A method \in RequestMethods :
             /\ \A path \in RequestURIs :
                   LET ns == walkRule(method, path)
                   IN  /\ Cardinality(ns) <= 1
                       /\ climbTree(method, path) =
                             IF ns = {} THEN Nil ELSE CHOOSE n \in ns : TRUE
             /\ LET root == rootOf(paths, method)
                IN  ( /\ root # "nil"
                      /\ <<<<"a">>, <<"b">>>> \in DOMAIN paths[root]
                      /\ <<<<"a">>, <<>>>> \in DOMAIN paths[root] )
                    => /\ routeFound(method, <<"/", "a", "/", "b">>)
                             = paths[root][<<<<"a">>, <<"b">>>>]
                       /\ routeFound(method, <<"/", "a", "/", "a">>)
                             = paths[root][<<<<"a">>, <<>>>>]
    /\ req.outcome \in {"handler", "panic", "static", "notfound"} =>
          IF req.node = Nil THEN walkRule(req.method, req.uri) = {}
          ELSE walkRule(req.method, req.uri) = {req.node}

(* a request for /a/a was answered not-found by a table that holds /a/b and
   /:x/:x: the literal child a was taken and the parameter slot never tried *)
C21_Witness ==
    /\ req.outcome = "notfound"
    /\ req.uri = <<"/", "a", "/", "a">>
    /\ rootOf(paths, req.method) # "nil"
    /\ LET tree == paths[rootOf(paths, req.method)]
       IN  /\ <<<<"a">>, <<"b">>>> \in DOMAIN tree
           /\ <<<<>>, <<>>>> \in DOMAIN tree
           /\ tree[<<<<>>, <<>>>>] # NoRoute


---------------------------------------------------------------------------
(* the walk of the method's own tree finds neither a literal nor a parameter
   child for some segment of path *)
p0_missesUnder(method, path) ==
    /\ method # ""
    /\ method \in DOMAIN paths
    /\ ~stripSlashes(path).panic
    /\ p0_climbLoop(paths[method], <<>>, Split(stripSlashes(path).path, Slash), 1).miss

(* C22: in the router of part_000, when the walk of the method's tree finds
   no child for a segment, climbTree returns what the lookup of the same
   request path in the all-methods tree returns, after registrations that
   all returned *)
C22_AsStated ==
    ~crashed =>
       \A method \in RequestMethods : \A path \in p0_Paths :
          p0_missesUnder(method, path) => p0_found(method, path) = p0_found("", path)


---------------------------------------------------------------------------
(* Registration while a request is served: addRoute and ServeHTTP run as
   two goroutines, one statement group at a time, with no lock on the
   table.  The server has neither middleware nor static roots. *)

conc_Patterns ==
    { <<"/", "a">>,
      <<"/", "a", "/", "b">>,
      <<"/", "a", "/", "b", "/">>,
      <<"/", "a", "/", ":", "x">> }

conc_URIs ==
    { <<"/", "a">>,
      <<"/", "b">>,
      <<"/", "a", "/", "b">>,
      <<"/", "a", "/", "a">> }

(* addRoute up to the loop: the strip, the method's root, the split *)
conc_addRoute_begin(method, route) ==
    /\ ~crashed
    /\ adding.pc = "idle"
    /\ Len(registered) < MaxRoutes
    /\ LET stripped == IF Len(route) > 0 /\ route[Len(route)] = Slash
                       THEN SubSeq(route, 1, Len(route) - 1) ELSE route
           withRoot == IF method \in DOMAIN paths THEN paths
                       ELSE (method :> (<<>> :> NoRoute)) @@ paths
       IN  IF Len(route) = 0
           THEN crashed' = TRUE /\ UNCHANGED <<paths, adding>>
           ELSE IF Len(stripped) = 0
           THEN crashed' = TRUE /\ paths' = withRoot /\ UNCHANGED adding
           ELSE /\ paths' = withRoot
                /\ adding' = [pc |-> "child", method |-> method, pattern |-> route,
                              route |-> buildRoute(stripped, Len(registered) + 1),
                              parts |-> Split(Drop(stripped, 1), Slash), index |-> 1,
                              currentNode |-> <<>>, linked |-> FALSE]
                /\ UNCHANGED crashed
    /\ UNCHANGED <<middleWare, staticDirs, compressionEnabled, registered, req, walking>>

(* the loop body that links a new last node with the route already set *)
conc_addRoute_child_withRoute ==
    /\ ~crashed
    /\ adding.pc = "child"
    /\ LET val == adding.parts[adding.index]
           child == Append(adding.currentNode, childKeyOf(val))
           last == adding.index = Len(adding.parts)
       IN  IF Len(val) = 0
           THEN crashed' = TRUE /\ UNCHANGED <<paths, adding>>
           ELSE /\ adding' = [adding EXCEPT !.pc = "route", !.currentNode = child,
                                            !.linked = child \notin DOMAIN paths[adding.method]]
                /\ paths' = IF child \in DOMAIN paths[adding.method] THEN paths
                            ELSE [paths EXCEPT ![adding.method] =
                                     (child :> IF last THEN adding.route ELSE NoRoute) @@ @]
                /\ UNCHANGED crashed
    /\ UNCHANGED <<middleWare, staticDirs, compressionEnabled, registered, req, walking>>

(* the loop body of addRoute up to the test of the index: the child key, the
   existing child followed or a new node linked into currentNode.children *)
conc_addRoute_child ==
    /\ ~crashed
    /\ adding.pc = "child"
    /\ LET val == adding.parts[adding.index]
           child == Append(adding.currentNode, childKeyOf(val))
       IN  IF Len(val) = 0
           THEN crashed' = TRUE /\ UNCHANGED <<paths, adding>>
           ELSE /\ adding' = [adding EXCEPT !.pc = "route", !.currentNode = child,
                                            !.linked = child \notin DOMAIN paths[adding.method]]
                /\ paths' = IF child \in DOMAIN paths[adding.method] THEN paths
                            ELSE [paths EXCEPT ![adding.method] = getNode(@, child)]
                /\ UNCHANGED crashed
    /\ UNCHANGED <<middleWare, staticDirs, compressionEnabled, registered, req, walking>>

(* the end of the loop body: at the last index the route is set on the
   current node; after the last index addRoute returns *)
conc_addRoute_route ==
    /\ ~crashed
    /\ adding.pc = "route"
    /\ IF adding.index = Len(adding.parts)
       THEN /\ paths' = [paths EXCEPT ![adding.method][adding.currentNode] = adding.route]
            /\ registered' = Append(registered,
                                    [method |-> adding.method, pattern |-> adding.pattern,
                                     route |-> adding.route])
            /\ adding' = NotAdding
       ELSE /\ adding' = [adding EXCEPT !.pc = "child", !.index = @ + 1]
            /\ UNCHANGED <<paths, registered>>
    /\ UNCHANGED <<middleWare, staticDirs, compressionEnabled, crashed, req, walking>>

(* ServeHTTP from the return of climbTree on, for a server without
   middleware: the call of node.route, else static files, else 404 *)
afterClimb(method, uri, node) ==
    LET looked == [method |-> method, uri |-> uri, calls |-> <<>>,
                   trace |-> <<<<"climbTree", 0>>>>, response |-> <<>>,
                   routeParams |-> <<>>, node |-> node, outcome |-> "middleware"]
    IN  IF node # Nil
        THEN IF routeAt(node) = NoRoute
             THEN [looked EXCEPT !.outcome = "panic"]
             ELSE call(routeAt(node), looked)
        ELSE LET static == serveStatic(uri, Append(looked.trace, <<"serveStatic", 0>>),
                                       looked.response)
             IN  IF static.served
                 THEN [looked EXCEPT !.trace = static.trace,
                                     !.response = static.response,
                                     !.outcome = "static"]
                 ELSE [looked EXCEPT !.trace = Append(static.trace, <<"NotFound", 0>>),
                                     !.response = Append(static.response, <<"404", 0>>),
                                     !.outcome = "notfound"]

(* ServeHTTP up to the loop of climbTree: the split and the choice of the
   root; without a root the request is finished at once *)
conc_ServeHTTP_begin(method, uri) ==
    /\ ~crashed
    /\ walking.pc = "idle"
    /\ req = NoReq
    /\ LET root == rootOf(paths, method)
       IN  IF root = "nil"
           THEN req' = afterClimb(method, uri, Nil) /\ UNCHANGED walking
           ELSE /\ walking' = [pc |-> "walk", method |-> method, uri |-> uri,
                               root |-> root, parts |-> Split(Drop(uri, 1), Slash),
                               i |-> 1, currentNode |-> <<>>]
                /\ UNCHANGED req
    /\ UNCHANGED <<paths, middleWare, staticDirs, compressionEnabled, registered,
                   crashed, adding>>

(* one turn of the loop of climbTree: the reads of currentNode.children *)
conc_climbTree_step ==
    /\ ~crashed
    /\ walking.pc = "walk"
    /\ LET tree == paths[walking.root]
           lit == Append(walking.currentNode, walking.parts[walking.i])
           par == Append(walking.currentNode, <<>>)
       IN  IF lit \notin DOMAIN tree /\ par \notin DOMAIN tree
           THEN /\ req' = afterClimb(walking.method, walking.uri, Nil)
                /\ walking' = NotWalking
           ELSE /\ walking' = [walking EXCEPT
                                 !.currentNode = IF lit \in DOMAIN tree THEN lit ELSE par,
                                 !.i = @ + 1,
                                 !.pc = IF walking.i = Len(walking.parts)
                                        THEN "call" ELSE "walk"]
                /\ UNCHANGED req
    /\ UNCHANGED <<paths, middleWare, staticDirs, compressionEnabled, registered,
                   crashed, adding>>

(* climbTree has returned a node: ServeHTTP reads node.route and calls it *)
conc_ServeHTTP_call ==
    /\ ~crashed
    /\ walking.pc = "call"
    /\ req' = afterClimb(walking.method, walking.uri,
                         [m |-> walking.root, at |-> walking.currentNode])
    /\ walking' = NotWalking
    /\ UNCHANGED <<paths, middleWare, staticDirs, compressionEnabled, registered,
                   crashed, adding>>

(* the Go runtime's fatal error "concurrent map read and map write": the
   walk reads the children map that addRoute is about to write *)
conc_Fatal ==
    /\ ~crashed
    /\ adding.pc = "child"
    /\ walking.pc = "walk"
    /\ walking.root = adding.method
    /\ walking.currentNode = adding.currentNode
    /\ crashed' = TRUE
    /\ UNCHANGED <<paths, middleWare, staticDirs, compressionEnabled, registered,
                   req, adding, walking>>

conc_Next ==
    \/ \E method \in RegisterMethods, route \in conc_Patterns :
          conc_addRoute_begin(method, route)
    \/ conc_addRoute_child
    \/ conc_addRoute_route
    \/ \E method \in RequestMethods, uri \in conc_URIs : conc_ServeHTTP_begin(method, uri)
    \/ conc_climbTree_step
    \/ conc_ServeHTTP_call
    \/ conc_Fatal
    \/ Release

conc_Spec == Init /\ [][conc_Next]_vars

(* addRoute has linked the last node of its pattern into the tree and has not
   yet set its route, and climbTree has returned that node to ServeHTTP *)
BetweenLinkAndRoute ==
    /\ adding.pc = "route"
    /\ adding.linked
    /\ adding.index = Len(adding.parts)
    /\ walking.pc = "call"
    /\ walking.root = adding.method
    /\ walking.currentNode = adding.currentNode

(* C23: when climbTree reaches the terminal node of P after addRoute(M, P)
   linked it and before addRoute set its route, the request is dispatched on
   that node and finds no route on it (the call of the nil route panics) *)
C23_MatchedWithoutRoute ==
    [][ (BetweenLinkAndRoute /\ req' # req)
          => /\ req'.node = [m |-> adding.method, at |-> adding.currentNode]
             /\ routeAt(req'.node) = NoRoute
             /\ req'.outcome = "panic" ]_vars

(* such a request has been served while the addRoute call is still short of
   setting the route, and its path has the shape of the pattern *)
C23_Witness ==
    /\ adding.pc = "route"
    /\ adding.linked
    /\ adding.index = Len(adding.parts)
    /\ req.outcome = "panic"
    /\ req.node = [m |-> adding.method, at |-> adding.currentNode]
    /\ SatisfiesShape(req.uri, adding.route.route)
    /\ routeAt(req.node) = NoRoute


---------------------------------------------------------------------------
(* C24: whenever ServeHTTP invokes a route's handler, the request target and
   the route's stored pattern split on '/' into the same number of segments,
   and buildRouteParams does not index past the last request segment: for the
   request served, and for every lookup that ends on a route, of every table
   between requests *)
C24_SameSegmentCount ==
    /\ req.outcome = "handler"
          => Len(segments(req.uri)) = Len(segments(routeAt(req.node).route))
    /\ req.outcome = "panic" => routeAt(req.node) = NoRoute
    /\ req = NoReq =>
          \A method \in RequestMethods : \A uri \in RequestURIs :
             LET route == routeFound(method, uri)
             IN  route # NoRoute
                    => /\ Len(segments(uri)) = Len(segments(route.route))
                       /\ ~buildRouteParams(uri, route.route).panic

(* a handler was invoked for a two-segment request on a route whose last
   segment is a parameter *)
C24_Witness ==
    /\ req.outcome = "handler"
    /\ Len(segments(req.uri)) = 2
    /\ isParam(segments(routeAt(req.node).route)[2])
    /\ DOMAIN req.routeParams # {}


---------------------------------------------------------------------------
(* the patterns addRoute accepts: the call returns *)
AcceptedPatterns == { P \in Patterns : ~addRouteIn(<<>>, "", buildRoute(P, 0)).panic }

(* the pairs of calls (method, pattern) of distinct method or shape *)
DistinctShapes ==
    { pair \in SUBSET (RegisterMethods \X AcceptedPatterns) :
        /\ Cardinality(pair) = 2
        /\ \A r1, r2 \in pair :
              r1 # r2 => <<r1[1], shapeOf(storedPattern(r1[2]))>>
                            # <<r2[1], shapeOf(storedPattern(r2[2]))>> }

(* the table after addRoute(m1, P1) with handler h1, then addRoute(m2, P2)
   with handler h2, on a given table *)
bothAdded(table, m1, P1, h1, m2, P2, h2) ==
    addRouteIn(addRouteIn(table, m1, buildRoute(P1, h1)).paths,
               m2, buildRoute(P2, h2)).paths

(* C25: registrations of distinct (method, shape) commute: on every table a
   sequence of registrations has built, registering (m1, P1) then (m2, P2)
   leaves the same table as registering (m2, P2) then (m1, P1); climbTree
   reads nothing but the table, so its results are the same.  Any two orders
   of a set of registrations differ by exchanges of neighbours, each made on
   a table that the registrations before them have built. *)
C25_OrderIndependent ==
    (~crashed /\ req = NoReq) =>
       \A pair \in DistinctShapes :
          LET r1 == CHOOSE r \in pair : TRUE
              r2 == CHOOSE r \in pair : r # r1
          IN  bothAdded(paths, r1[1], r1[2], 1, r2[1], r2[2], 2)
                 = bothAdded(paths, r2[1], r2[2], 2, r1[1], r1[2], 1)

(* two registrations of distinct shapes that share the node a were made under
   one method, and the table is the one the other order builds from nothing *)
C25_Witness ==
    /\ ~crashed
    /\ Len(registered) = 2
    /\ registered[1].method = registered[2].method
    /\ shapeOf(registered[1].route.route) = << <<"a">> >>
    /\ Len(shapeOf(registered[2].route.route)) = 2
    /\ shapeOf(registered[2].route.route)[1] = <<"a">>
    /\ paths = bothAdded(<<>>, registered[2].method, registered[2].pattern, 2,
                         registered[1].method, registered[1].pattern, 1)


---------------------------------------------------------------------------
(* C26: no handler is dispatched with a path parameter bound to the empty
   string: a parameter slot is matched only by a non-empty segment *)
C26_AsStated ==
    req.outcome = "handler"
       => \A name \in DOMAIN req.routeParams : req.routeParams[name] # <<>>

====
